---- MODULE Spec2Model ----
(***************************************************************************)
(* A model of gomobile-gcal-summary's main(): the calendar-list call, the  *)
(* computation of the month and week windows from time.Now(), the          *)
(* per-calendar event fetch, the per-event aggregation loop and the two    *)
(* summary lines.                                                          *)
(*                                                                         *)
(* Instants are records [day, sec]: day is the number of days since        *)
(* 1970-01-01 and sec the second of that day, in one fixed-offset          *)
(* location.  t.Unix() is day * 86400 + sec; the zero time.Time lies       *)
(* 719162 days before the epoch, so Unix values are compared               *)
(* lexicographically on (day, sec) rather than multiplied out.             *)
(* Durations and totals are records [sat, secs] standing for               *)
(* sat * (largest Duration) + secs seconds; Hours() divides by 3600, so a  *)
(* total of 5400 seconds is 1.5 hours.                                     *)
(***************************************************************************)
EXTENDS Integers, Sequences, FiniteSets, TLC

VARIABLES
    provider,        \* what the remote calendar service will answer
    now,             \* time.Now()
    pc,              \* position in main()
    monthBegin, monthEnd, weekBegin, weekEnd,
    lastStartTime, lastEndTime,
    today,
    weekTotal, workDaysInWeek, monthTotal, workDaysInMonth,
    ci,              \* index of the calendar of the outer loop
    ei,              \* index of the event of the inner loop
    events,          \* events.Items of the calendar being processed
    out,             \* lines written to standard output
    calls,           \* requests sent to the calendar service
    weekIncAt        \* history: <<ci, ei>> of events that incremented workDaysInWeek

vars == <<provider, now, pc, monthBegin, monthEnd, weekBegin, weekEnd,
          lastStartTime, lastEndTime, today, weekTotal, workDaysInWeek,
          monthTotal, workDaysInMonth, ci, ei, events, out, calls, weekIncAt>>

----------------------------------------------------------------------------
(* Calendar arithmetic of package time *)

SecondsPerDay == 86400
SecondsPerHour == 3600
SecondsPerMinute == 60
HoursPerWorkDay == 8

\* Days of the zero time.Time (0001-01-01 00:00:00 UTC) relative to 1970-01-01.
ZeroDay == -719162

\* Whole days and remaining seconds of the largest Duration (2^63-1 ns).
MaxDurationDays == 106751
MaxDurationRemSecs == 85636

IsLeap(y) == (y % 4 = 0) /\ ((y % 100 # 0) \/ (y % 400 = 0))

DaysIn(m, y) ==
    IF m = 2 THEN (IF IsLeap(y) THEN 29 ELSE 28)
    ELSE IF m \in {4, 6, 9, 11} THEN 30 ELSE 31

\* Days from 1970-01-01 to the civil date y-m-d (m in 1..12).
DaysFromCivil(y, m, d) ==
    LET yy  == IF m <= 2 THEN y - 1 ELSE y
        era == yy \div 400
        yoe == yy - era * 400
        mp  == IF m > 2 THEN m - 3 ELSE m + 9
        doy == (153 * mp + 2) \div 5 + d - 1
        doe == yoe * 365 + yoe \div 4 - yoe \div 100 + doy
    IN  era * 146097 + doe - 719468

\* The civil date of a day number: what Year(), Month() and Day() return.
CivilFromDays(n) ==
    LET z   == n + 719468
        era == z \div 146097
        doe == z - era * 146097
        yoe == (doe - doe \div 1460 + doe \div 36524 - doe \div 146096) \div 365
        doy == doe - (365 * yoe + yoe \div 4 - yoe \div 100)
        mp  == (5 * doy + 2) \div 153
        d   == doy - (153 * mp + 2) \div 5 + 1
        m   == IF mp < 10 THEN mp + 3 ELSE mp - 9
        y   == yoe + era * 400 + (IF m <= 2 THEN 1 ELSE 0)
    IN  [y |-> y, m |-> m, d |-> d]

Year(t) == CivilFromDays(t.day).y
Month(t) == CivilFromDays(t.day).m
Day(t) == CivilFromDays(t.day).d

\* time.Weekday: Sunday = 0 ... Saturday = 6 (1970-01-01 was a Thursday).
Weekday(t) == (t.day + 4) % 7

\* time.Date(year, month, day, hour, min, sec, 0, loc): month and day may lie
\* outside their usual ranges and are normalised.
GoDate(year, month, day, hour, min, sec) ==
    LET y == year + ((month - 1) \div 12)
        m == ((month - 1) % 12) + 1
    IN  [day |-> DaysFromCivil(y, m, 1) + day - 1,
         sec |-> hour * SecondsPerHour + min * SecondsPerMinute + sec]

ZeroTime == [day |-> ZeroDay, sec |-> 0]

\* a.Unix() < b.Unix() and a.Unix() > b.Unix()
UnixLess(a, b) == a.day < b.day \/ (a.day = b.day /\ a.sec < b.sec)
UnixGreater(a, b) == UnixLess(b, a)

\* t.Sub(u): the difference in seconds, saturated at the largest and the
\* smallest Duration.
Sub(t, u) ==
    LET dd == t.day - u.day
        ds == t.sec - u.sec
        k  == dd - MaxDurationDays
        n  == (0 - dd) - MaxDurationDays
    IN  IF k >= 2 \/ (k = 1 /\ SecondsPerDay + ds > MaxDurationRemSecs)
             \/ (k = 0 /\ ds > MaxDurationRemSecs)
        THEN [sat |-> 1, secs |-> 0]
        ELSE IF n >= 2 \/ (n = 1 /\ SecondsPerDay - ds > MaxDurationRemSecs)
                  \/ (n = 0 /\ (0 - ds) > MaxDurationRemSecs)
        THEN [sat |-> -1, secs |-> 0]
        ELSE [sat |-> 0, secs |-> dd * SecondsPerDay + ds]

ZeroTotal == [sat |-> 0, secs |-> 0]

\* total = duration in place of total += duration
AddDurationOverwrites(total, d) == d

\* total += duration
AddDuration(total, d) == [sat |-> total.sat + d.sat, secs |-> total.secs + d.secs]

\* time.Parse(time.RFC3339, s).  A timestamp string is modelled by its fields
\* <<year, month, day, hour, minute, second>>; the empty string by <<>>.  A
\* string that does not parse yields the zero Time and an error.
ValidDateTime(s) ==
    /\ Len(s) = 6
    /\ s[2] \in 1..12
    /\ s[3] >= 1 /\ s[3] <= DaysIn(s[2], s[1])
    /\ s[4] \in 0..23
    /\ s[5] \in 0..59
    /\ s[6] \in 0..59

Parse(s) ==
    IF ValidDateTime(s)
    THEN [t |-> [day |-> DaysFromCivil(s[1], s[2], s[3]),
                 sec |-> s[4] * SecondsPerHour + s[5] * SecondsPerMinute + s[6]],
          err |-> FALSE]
    ELSE [t |-> ZeroTime, err |-> TRUE]

\* strings.HasPrefix on strings modelled as sequences of characters
HasPrefix(s, prefix) ==
    /\ Len(s) >= Len(prefix)
    /\ SubSeq(s, 1, Len(prefix)) = prefix

TitlePrefix == <<"S", "o", "l", "a", "r", "W", "i", "n", "d", "s">>

----------------------------------------------------------------------------
(* The calendar service *)

\* The instant the service files an EventDateTime under: its dateTime, or
\* midnight of its date for an all-day event.
ServiceInstant(edt) ==
    IF ValidDateTime(edt.DateTime)
    THEN Parse(edt.DateTime).t
    ELSE [day |-> DaysFromCivil(edt.Date[1], edt.Date[2], edt.Date[3]), sec |-> 0]

\* OrderBy("startTime"): a calendar's events come in ascending start order.
SortedByStart(items) ==
    \A i \in 1..Len(items) - 1 :
        ~UnixLess(ServiceInstant(items[i + 1].Start), ServiceInstant(items[i].Start))

\* Events.List(cal).TimeMin(timeMin).TimeMax(timeMax): the events that end
\* after timeMin and start before timeMax.
EventsList(cal, timeMin, timeMax) ==
    LET Overlaps(ev) == /\ UnixGreater(ServiceInstant(ev.End), timeMin)
                        /\ UnixLess(ServiceInstant(ev.Start), timeMax)
    IN  SelectSeq(cal.items, Overlaps)

\* The lower bound of the request: time.Date(now.Year(), 0, 0, 0, 0, 0, 0, loc)
TimeMinOf(t) == GoDate(Year(t), 0, 0, 0, 0, 0)

----------------------------------------------------------------------------
(* Window computation, main.go 131-144 *)

MonthBeginOf(t) == GoDate(Year(t), Month(t), 1, 0, 0, 0)
MonthEndOf(t) == GoDate(Year(t), Month(t) + 1, 0, 23, 59, 59)

\* Sunday left as day 0 of the week.
IsoWeekdaySundayFirst(t) == Weekday(t)

IsoWeekday(t) == IF Weekday(t) = 0 THEN 7 ELSE Weekday(t)

WeekBeginOf(t) == GoDate(Year(t), Month(t), Day(t) - IsoWeekday(t) + 1, 0, 0, 0)
WeekEndOf(t) == GoDate(Year(t), Month(t), Day(t) - IsoWeekday(t) + 7, 23, 59, 59)

----------------------------------------------------------------------------
(* One iteration of the event loop, main.go 164-218 *)

\* The prefix compared without regard to case.
FoldChar(c) == IF c = "S" THEN "s" ELSE IF c = "W" THEN "w" ELSE c
FoldCase(s) == [k \in 1..Len(s) |-> FoldChar(s[k])]
MatchesFoldCase(ev) == HasPrefix(FoldCase(ev.Summary), FoldCase(TitlePrefix))

Matches(ev) == HasPrefix(ev.Summary, TitlePrefix)

\* The week's bounds taken as inclusive.
InWeekInclusive(startTime, endTime) ==
    ~UnixLess(startTime, weekBegin) /\ ~UnixGreater(endTime, weekEnd)

InWeek(startTime, endTime) ==
    UnixGreater(startTime, weekBegin) /\ UnixLess(endTime, weekEnd)

InMonth(startTime, endTime) ==
    UnixGreater(startTime, monthBegin) /\ UnixLess(endTime, monthEnd)

\* The lines one matching event writes: a parse error per timestamp that
\* fails, then the event's line.
EventLines(ev, startTime, endTime, duration) ==
    (IF Parse(ev.Start.DateTime).err THEN <<[kind |-> "parse error"]>> ELSE <<>>)
    \o (IF Parse(ev.End.DateTime).err THEN <<[kind |-> "parse error"]>> ELSE <<>>)
    \o <<[kind |-> "event", start |-> startTime, duration |-> duration,
          title |-> ev.Summary]>>

\* The accumulators after the loop body has run on a matching event.
Accumulate(acc, ev) ==
    LET startTime == Parse(ev.Start.DateTime).t
        endTime   == Parse(ev.End.DateTime).t
        inWeek    == InWeek(startTime, endTime)
        inMonth   == InMonth(startTime, endTime)
        duration  == Sub(endTime, startTime)
        newDay    == Day(startTime) # acc.today
    IN  [today           |-> IF newDay THEN Day(startTime) ELSE acc.today,
         lastStartTime   |-> IF newDay THEN startTime ELSE acc.lastStartTime,
         lastEndTime     |-> IF newDay THEN endTime ELSE acc.lastEndTime,
         workDaysInWeek  |-> IF newDay /\ inWeek THEN acc.workDaysInWeek + 1
                             ELSE acc.workDaysInWeek,
         workDaysInMonth |-> IF newDay /\ inMonth THEN acc.workDaysInMonth + 1
                             ELSE acc.workDaysInMonth,
         weekTotal       |-> IF inWeek THEN AddDuration(acc.weekTotal, duration)
                             ELSE acc.weekTotal,
         monthTotal      |-> IF inMonth THEN AddDuration(acc.monthTotal, duration)
                             ELSE acc.monthTotal,
         out             |-> acc.out \o EventLines(ev, startTime, endTime, duration)]

\* The whole loop body: events without the prefix are passed over.
LoopBody(acc, ev) == IF Matches(ev) THEN Accumulate(acc, ev) ELSE acc

Acc == [today |-> today, lastStartTime |-> lastStartTime, lastEndTime |-> lastEndTime,
        workDaysInWeek |-> workDaysInWeek, workDaysInMonth |-> workDaysInMonth,
        weekTotal |-> weekTotal, monthTotal |-> monthTotal, out |-> out]

\* A target of at least one work day.
TargetTotalAtLeastOneDay(workDays) ==
    (IF workDays = 0 THEN 1 ELSE workDays) * HoursPerWorkDay

\* float64(workDays * 8)
TargetTotal(workDays) == workDays * HoursPerWorkDay

\* "<name>: <total> of <target> (<total - target>)"; the difference is
\* carried in seconds like the total.
SummaryLine(name, total, workDays) ==
    [kind |-> name, total |-> total, target |-> TargetTotal(workDays),
     diff |-> [sat |-> total.sat,
               secs |-> total.secs - TargetTotal(workDays) * SecondsPerHour]]

WindowLine(begin, end) == [kind |-> "window", begin |-> begin, end |-> end]

----------------------------------------------------------------------------
(* main() *)

\* srv.CalendarList.List().Do() fails, or returns no list: log.Fatalf
ListCalendarsFatal ==
    /\ pc = "list"
    /\ provider.list # "ok"
    /\ calls' = Append(calls, [op |-> "CalendarList.List"])
    /\ pc' = "fatal"
    /\ UNCHANGED <<provider, now, monthBegin, monthEnd, weekBegin, weekEnd,
                   lastStartTime, lastEndTime, today, weekTotal, workDaysInWeek,
                   monthTotal, workDaysInMonth, ci, ei, events, out, weekIncAt>>

\* The list arrives; the windows are computed and printed, the accumulators
\* are initialised and the loop over the calendars begins.
ListCalendars ==
    /\ pc = "list"
    /\ provider.list = "ok"
    /\ calls' = Append(calls, [op |-> "CalendarList.List"])
    /\ monthBegin' = MonthBeginOf(now)
    /\ monthEnd' = MonthEndOf(now)
    /\ weekBegin' = WeekBeginOf(now)
    /\ weekEnd' = WeekEndOf(now)
    /\ out' = out \o <<WindowLine(MonthBeginOf(now), MonthEndOf(now)),
                       WindowLine(WeekBeginOf(now), WeekEndOf(now))>>
    /\ today' = 0
    /\ weekTotal' = ZeroTotal
    /\ workDaysInWeek' = 0
    /\ monthTotal' = ZeroTotal
    /\ workDaysInMonth' = 0
    /\ ci' = 1
    /\ pc' = "fetch"
    /\ UNCHANGED <<provider, now, lastStartTime, lastEndTime, ei, events, weekIncAt>>

EventsRequest ==
    [op |-> "Events.List", cal |-> ci, timeMin |-> TimeMinOf(now), timeMax |-> monthEnd]

\* A failed event request that is passed over: the loop goes on with the
\* next calendar.
FetchEventsFailureSkipped ==
    /\ pc = "fetch"
    /\ ci <= Len(provider.cals)
    /\ provider.cals[ci].err
    /\ calls' = Append(calls, EventsRequest)
    /\ ci' = ci + 1
    /\ UNCHANGED <<provider, now, pc, monthBegin, monthEnd, weekBegin, weekEnd,
                   lastStartTime, lastEndTime, today, weekTotal, workDaysInWeek,
                   monthTotal, workDaysInMonth, ei, events, out, weekIncAt>>

\* srv.Events.List(cal.Id)...Do() fails: log.Fatalf
FetchEventsFatal ==
    /\ pc = "fetch"
    /\ ci <= Len(provider.cals)
    /\ provider.cals[ci].err
    /\ calls' = Append(calls, EventsRequest)
    /\ pc' = "fatal"
    /\ UNCHANGED <<provider, now, monthBegin, monthEnd, weekBegin, weekEnd,
                   lastStartTime, lastEndTime, today, weekTotal, workDaysInWeek,
                   monthTotal, workDaysInMonth, ci, ei, events, out, weekIncAt>>

FetchEvents ==
    /\ pc = "fetch"
    /\ ci <= Len(provider.cals)
    /\ ~provider.cals[ci].err
    /\ calls' = Append(calls, EventsRequest)
    /\ events' = EventsList(provider.cals[ci], TimeMinOf(now), monthEnd)
    /\ ei' = 1
    /\ pc' = "event"
    /\ UNCHANGED <<provider, now, monthBegin, monthEnd, weekBegin, weekEnd,
                   lastStartTime, lastEndTime, today, weekTotal, workDaysInWeek,
                   monthTotal, workDaysInMonth, ci, out, weekIncAt>>

\* if !strings.HasPrefix(ev.Summary, "SolarWinds") { continue }
SkipEvent ==
    /\ pc = "event"
    /\ ei <= Len(events)
    /\ ~Matches(events[ei])
    /\ ei' = ei + 1
    /\ UNCHANGED <<provider, now, pc, monthBegin, monthEnd, weekBegin, weekEnd,
                   lastStartTime, lastEndTime, today, weekTotal, workDaysInWeek,
                   monthTotal, workDaysInMonth, ci, events, out, calls, weekIncAt>>

ProcessEvent ==
    /\ pc = "event"
    /\ ei <= Len(events)
    /\ Matches(events[ei])
    /\ LET r == LoopBody(Acc, events[ei])
       IN  /\ today' = r.today
           /\ lastStartTime' = r.lastStartTime
           /\ lastEndTime' = r.lastEndTime
           /\ workDaysInWeek' = r.workDaysInWeek
           /\ workDaysInMonth' = r.workDaysInMonth
           /\ weekTotal' = r.weekTotal
           /\ monthTotal' = r.monthTotal
           /\ out' = r.out
           /\ weekIncAt' = IF r.workDaysInWeek # workDaysInWeek
                           THEN weekIncAt \cup {<<ci, ei>>} ELSE weekIncAt
    /\ ei' = ei + 1
    /\ UNCHANGED <<provider, now, pc, monthBegin, monthEnd, weekBegin, weekEnd,
                   ci, events, calls>>

\* The inner loop is exhausted: on to the next calendar.
NextCalendar ==
    /\ pc = "event"
    /\ ei > Len(events)
    /\ ci' = ci + 1
    /\ pc' = "fetch"
    /\ UNCHANGED <<provider, now, monthBegin, monthEnd, weekBegin, weekEnd,
                   lastStartTime, lastEndTime, today, weekTotal, workDaysInWeek,
                   monthTotal, workDaysInMonth, ei, events, out, calls, weekIncAt>>

\* The outer loop is exhausted: the two summary lines, main.go 224-228.
Summary ==
    /\ pc = "fetch"
    /\ ci > Len(provider.cals)
    /\ out' = out \o <<SummaryLine("week total", weekTotal, workDaysInWeek),
                       SummaryLine("month total", monthTotal, workDaysInMonth)>>
    /\ pc' = "done"
    /\ UNCHANGED <<provider, now, monthBegin, monthEnd, weekBegin, weekEnd,
                   lastStartTime, lastEndTime, today, weekTotal, workDaysInWeek,
                   monthTotal, workDaysInMonth, ci, ei, events, calls, weekIncAt>>

Next ==
    \/ ListCalendarsFatal
    \/ ListCalendars
    \/ FetchEventsFatal
    \/ FetchEvents
    \/ SkipEvent
    \/ ProcessEvent
    \/ NextCalendar
    \/ Summary

----------------------------------------------------------------------------
(* Inputs *)

MaxEvents == 3   \* events over all the calendars of one run
MaxCals == 2     \* calendars of one run

StandupTitle == TitlePrefix \o <<":", " ", "s", "t", "a", "n", "d", "u", "p">>
ReviewTitle == TitlePrefix \o <<":", " ", "r", "e", "v", "i", "e", "w">>
LunchTitle == <<"L", "u", "n", "c", "h">>
LowerTitle == <<"s", "o", "l", "a", "r", "w", "i", "n", "d", "s">>
ShortTitle == <<"S", "o", "l", "a", "r">>

Timed(title, start, end) ==
    [Summary |-> title,
     Start |-> [DateTime |-> start, Date |-> <<>>],
     End |-> [DateTime |-> end, Date |-> <<>>]]

\* An all-day event carries dates and empty dateTime strings.
AllDay(title, startDate, endDate) ==
    [Summary |-> title,
     Start |-> [DateTime |-> <<>>, Date |-> startDate],
     End |-> [DateTime |-> <<>>, Date |-> endDate]]

\* The three events of the worked example, on Monday 2026-04-06.
Standup == Timed(StandupTitle, <<2026, 4, 6, 9, 0, 0>>, <<2026, 4, 6, 9, 30, 0>>)
Review == Timed(ReviewTitle, <<2026, 4, 6, 14, 0, 0>>, <<2026, 4, 6, 15, 0, 0>>)
Lunch == Timed(LunchTitle, <<2026, 4, 6, 12, 0, 0>>, <<2026, 4, 6, 13, 0, 0>>)

\* A month earlier, on the same day of the month as the example.
MarchSixth == Timed(TitlePrefix, <<2026, 3, 6, 9, 0, 0>>, <<2026, 3, 6, 10, 0, 0>>)
\* Ninety minutes on Tuesday under a title that differs from the prefix in case.
LowerTuesday == Timed(LowerTitle, <<2026, 4, 7, 9, 0, 0>>, <<2026, 4, 7, 10, 30, 0>>)
\* A title that is a proper prefix of the prefix.
ShortWednesday == Timed(ShortTitle, <<2026, 4, 8, 9, 0, 0>>, <<2026, 4, 8, 10, 0, 0>>)

Universe == {Standup, Review, Lunch, MarchSixth, LowerTuesday, ShortWednesday}

\* Events at the edges of the week of 2026-04-06 and of April 2026.
WeekBeginStart == Timed(TitlePrefix, <<2026, 4, 6, 0, 0, 0>>, <<2026, 4, 6, 1, 0, 0>>)
WeekEndEnd == Timed(TitlePrefix, <<2026, 4, 12, 23, 0, 0>>, <<2026, 4, 12, 23, 59, 59>>)
OverWeekEnd == Timed(TitlePrefix, <<2026, 4, 12, 22, 0, 0>>, <<2026, 4, 13, 1, 0, 0>>)
MonthBeginStart == Timed(TitlePrefix, <<2026, 4, 1, 0, 0, 0>>, <<2026, 4, 1, 1, 0, 0>>)
MonthEndEnd == Timed(TitlePrefix, <<2026, 4, 30, 23, 0, 0>>, <<2026, 4, 30, 23, 59, 59>>)

BoundaryUniverse ==
    {WeekBeginStart, WeekEndEnd, OverWeekEnd, MonthBeginStart, MonthEndEnd, Standup, Lunch}

\* Events whose timestamps do not parse: an all-day event (both dateTime
\* strings empty), and events with one dateTime naming April 31st.
AllDaySixth == AllDay(TitlePrefix, <<2026, 4, 6>>, <<2026, 4, 7>>)
BadEndTuesday ==
    [Summary |-> TitlePrefix,
     Start |-> [DateTime |-> <<2026, 4, 7, 9, 0, 0>>, Date |-> <<>>],
     End |-> [DateTime |-> <<2026, 4, 31, 10, 0, 0>>, Date |-> <<2026, 4, 7>>]]
BadStartTuesday ==
    [Summary |-> TitlePrefix,
     Start |-> [DateTime |-> <<2026, 4, 31, 9, 0, 0>>, Date |-> <<2026, 4, 7>>],
     End |-> [DateTime |-> <<2026, 4, 7, 10, 0, 0>>, Date |-> <<>>]]

ParseUniverse == {Standup, Review, Lunch, AllDaySixth, BadEndTuesday, BadStartTuesday}

\* Wednesday 2026-04-08 at noon
Nows == { [day |-> DaysFromCivil(2026, 4, 8), sec |-> 12 * SecondsPerHour] }

\* Every day from 2023-12-25 to 2025-01-05, at the first and the last second.
WindowNows ==
    { [day |-> d, sec |-> s] :
        d \in DaysFromCivil(2023, 12, 25)..DaysFromCivil(2025, 1, 5),
        s \in {0, SecondsPerDay - 1} }

\* On New Year's Eve 2024 the request reaches back to 2023-11-30.
NewYearsEve == Timed(TitlePrefix, <<2024, 12, 31, 9, 0, 0>>, <<2024, 12, 31, 10, 0, 0>>)
NewYearsLunch == Timed(LunchTitle, <<2024, 12, 31, 12, 0, 0>>, <<2024, 12, 31, 13, 0, 0>>)

WindowProviders ==
    { [list |-> "ok", cals |-> <<>>],
      [list |-> "ok", cals |-> <<[err |-> FALSE, items |-> <<NewYearsEve, NewYearsLunch>>]>>],
      [list |-> "ok", cals |-> <<[err |-> TRUE, items |-> <<>>]>>],
      [list |-> "err", cals |-> <<>>] }

\* The sorted event lists of each length a calendar may hold.
ItemLists(U) ==
    [k \in 0..MaxEvents |-> {s \in [1..k -> U] : SortedByStart(s)}]

\* The calendars of a run: at most c of them holding at most n events in all;
\* a calendar whose event request fails holds nothing the program sees.
RECURSIVE CalSeqs(_, _, _)
CalSeqs(lists, c, n) ==
    IF c = 0 THEN {<<>>}
    ELSE {<<>>} \cup
         UNION { { <<cal>> \o rest : rest \in CalSeqs(lists, c - 1, n - Len(cal.items)) } :
                 cal \in {[err |-> FALSE, items |-> s] : s \in UNION {lists[k] : k \in 0..n}}
                         \cup {[err |-> TRUE, items |-> <<>>]} }

Providers(U) ==
    {[list |-> "ok", cals |-> cs] : cs \in CalSeqs(ItemLists(U), MaxCals, MaxEvents)}
    \cup {[list |-> l, cals |-> <<>>] : l \in {"err", "nil"}}

InitWith(nows, providers) ==
    /\ now \in nows
    /\ provider \in providers
    /\ pc = "list"
    /\ monthBegin = ZeroTime
    /\ monthEnd = ZeroTime
    /\ weekBegin = ZeroTime
    /\ weekEnd = ZeroTime
    /\ lastStartTime = ZeroTime
    /\ lastEndTime = ZeroTime
    /\ today = 0
    /\ weekTotal = ZeroTotal
    /\ workDaysInWeek = 0
    /\ monthTotal = ZeroTotal
    /\ workDaysInMonth = 0
    /\ ci = 0
    /\ ei = 0
    /\ events = <<>>
    /\ out = <<>>
    /\ calls = <<>>
    /\ weekIncAt = {}

Init == InitWith(Nows, Providers(Universe))
Spec == Init /\ [][Next]_vars

InitBoundary == InitWith(Nows, Providers(BoundaryUniverse))
SpecBoundary == InitBoundary /\ [][Next]_vars

InitParse == InitWith(Nows, Providers(ParseUniverse))
SpecParse == InitParse /\ [][Next]_vars

InitWindow == InitWith(WindowNows, WindowProviders)
SpecWindow == InitWindow /\ [][Next]_vars

----------------------------------------------------------------------------
(* What a complete run iterates over, and the loop run on a given sequence *)

\* The events of all calendars in the order the two loops visit them.
RECURSIVE StreamFrom(_)
StreamFrom(k) ==
    IF k > Len(provider.cals) THEN <<>>
    ELSE EventsList(provider.cals[k], TimeMinOf(now), MonthEndOf(now)) \o StreamFrom(k + 1)

Stream == StreamFrom(1)

\* The accumulators and the output when the outer loop is entered.
InitialAcc ==
    [today |-> 0, lastStartTime |-> ZeroTime, lastEndTime |-> ZeroTime,
     workDaysInWeek |-> 0, workDaysInMonth |-> 0,
     weekTotal |-> ZeroTotal, monthTotal |-> ZeroTotal,
     out |-> <<WindowLine(monthBegin, monthEnd), WindowLine(weekBegin, weekEnd)>>]

\* The loop body applied to seq[i], seq[i+1], ... in turn.
RECURSIVE RunFrom(_, _, _)
RunFrom(acc, seq, i) ==
    IF i > Len(seq) THEN acc ELSE RunFrom(LoopBody(acc, seq[i]), seq, i + 1)

RunOf(seq) == RunFrom(InitialAcc, seq, 1)

\* The accumulators and the output once the summary lines are written.
FinalOf(seq) ==
    LET r == RunOf(seq)
    IN  [r EXCEPT !.out = r.out \o
            <<SummaryLine("week total", r.weekTotal, r.workDaysInWeek),
              SummaryLine("month total", r.monthTotal, r.workDaysInMonth)>>]

Remove(seq, i) == SubSeq(seq, 1, i - 1) \o SubSeq(seq, i + 1, Len(seq))

\* The totals and day counts of a set of accumulators.
Result(acc) == <<acc.weekTotal, acc.monthTotal, acc.workDaysInWeek, acc.workDaysInMonth>>

----------------------------------------------------------------------------
(* Vocabulary of the claims, stated apart from the operators of the model *)

StartsWithPrefix(ev) ==
    /\ Len(ev.Summary) >= 10
    /\ \A k \in 1..10 : ev.Summary[k] = TitlePrefix[k]

Parses(ev) == ValidDateTime(ev.Start.DateTime) /\ ValidDateTime(ev.End.DateTime)

StartOf(ev) == Parse(ev.Start.DateTime).t
EndOf(ev) == Parse(ev.End.DateTime).t

\* t.Unix() of an instant of this century, as one number
UnixSeconds(t) == t.day * 86400 + t.sec

Midnight(y, m, d) == [day |-> DaysFromCivil(y, m, d), sec |-> 0]
LastSecond(y, m, d) == [day |-> DaysFromCivil(y, m, d), sec |-> 86399]

\* start > begin and end < end-of-window, on whole seconds
StrictlyInside(ev, begin, end) ==
    /\ UnixSeconds(StartOf(ev)) > UnixSeconds(begin)
    /\ UnixSeconds(EndOf(ev)) < UnixSeconds(end)

\* the event ends before the window begins or starts after it ends
FullyOutside(ev, begin, end) ==
    \/ UnixSeconds(EndOf(ev)) < UnixSeconds(begin)
    \/ UnixSeconds(StartOf(ev)) > UnixSeconds(end)

Ascending(seq) ==
    \A i \in 1..Len(seq) - 1 :
        UnixSeconds(StartOf(seq[i])) <= UnixSeconds(StartOf(seq[i + 1]))

\* The calendar days holding a matching event that lies inside the window.
WorkDays(seq, begin, end) ==
    { StartOf(seq[i]).day :
        i \in {j \in 1..Len(seq) : StartsWithPrefix(seq[j])
                                   /\ StrictlyInside(seq[j], begin, end)} }

\* The event a history entry <<calendar, index>> stands for.
EventAt(p) == EventsList(provider.cals[p[1]], TimeMinOf(now), MonthEndOf(now))[p[2]]

IsSummaryLine(l) == l.kind \in {"week total", "month total"}
IsEventLine(l) == l.kind = "event"

----------------------------------------------------------------------------
(* Claims *)

AllParse(seq) == \A i \in 1..Len(seq) : Parses(seq[i])

\* C1: when the events of a complete run come in ascending start order,
\* workDaysInWeek is the number of distinct calendar days holding a matching
\* event inside the week window, and workDaysInMonth the same for the month.
C1_WorkDaysAreDistinctDays ==
    (pc = "done" /\ AllParse(Stream) /\ Ascending(Stream)) =>
        /\ workDaysInWeek = Cardinality(WorkDays(Stream, weekBegin, weekEnd))
        /\ workDaysInMonth = Cardinality(WorkDays(Stream, monthBegin, monthEnd))

\* C2: a matching event with a timestamp that does not parse leaves the
\* totals and the day counts of the run as they are without it.
C2_UnparseableEventIsSkipped ==
    pc = "done" =>
        \A i \in 1..Len(Stream) :
            (StartsWithPrefix(Stream[i]) /\ ~Parses(Stream[i])) =>
                Result(Acc) = Result(RunOf(Remove(Stream, i)))

ExampleRun ==
    /\ pc = "done"
    /\ Stream = <<Standup, Review, Lunch>>
    /\ weekBegin = Midnight(2026, 4, 6)
    /\ weekEnd = LastSecond(2026, 4, 12)

\* C3 as stated: the example run ends with a week total of 1.0 hour (3600
\* seconds), one work day and a week target of 8.
C3_ExampleAsStated ==
    ExampleRun =>
        /\ weekTotal = [sat |-> 0, secs |-> 3600]
        /\ workDaysInWeek = 1
        /\ out[Len(out) - 1].kind = "week total"
        /\ out[Len(out) - 1].target = 8

\* C3 amended: the example run ends with a week total of 1.5 hours (5400
\* seconds: the half hour of the standup and the hour of the review), one
\* work day and a week target of 8.
C3_Example ==
    ExampleRun =>
        /\ weekTotal = [sat |-> 0, secs |-> 5400]
        /\ workDaysInWeek = 1
        /\ out[Len(out) - 1].kind = "week total"
        /\ out[Len(out) - 1].target = 8

C3_Witness == ExampleRun

\* C4: an event whose title does not start with the prefix changes nothing:
\* the accumulators, the day tracker and the output at the end of the run are
\* those of the run without that event.
C4_NonMatchingEventIsIgnored ==
    pc = "done" =>
        \A i \in 1..Len(Stream) :
            ~StartsWithPrefix(Stream[i]) => Acc = FinalOf(Remove(Stream, i))

C4_Witness ==
    /\ pc = "done"
    /\ \E i, j \in 1..Len(Stream) :
        /\ i < j
        /\ Stream[i] = LowerTuesday
        /\ StartsWithPrefix(Stream[j])
        /\ StrictlyInside(Stream[j], weekBegin, weekEnd)

\* C5: a matching event lying fully outside the week and the month leaves the
\* totals and the day counts of the run as they are without it.
C5_OutsideEventIsExcluded ==
    pc = "done" =>
        \A i \in 1..Len(Stream) :
            (/\ StartsWithPrefix(Stream[i])
             /\ Parses(Stream[i])
             /\ FullyOutside(Stream[i], weekBegin, weekEnd)
             /\ FullyOutside(Stream[i], monthBegin, monthEnd)) =>
                Result(Acc) = Result(RunOf(Remove(Stream, i)))

C6_Step ==
    (pc = "event" /\ ei <= Len(events) /\ StartsWithPrefix(events[ei])
                  /\ Parses(events[ei])) =>
        LET ev   == events[ei]
            secs == UnixSeconds(EndOf(ev)) - UnixSeconds(StartOf(ev))
            inW  == StrictlyInside(ev, weekBegin, weekEnd)
            inM  == StrictlyInside(ev, monthBegin, monthEnd)
        IN  /\ weekTotal' = [sat |-> weekTotal.sat,
                             secs |-> weekTotal.secs + (IF inW THEN secs ELSE 0)]
            /\ monthTotal' = [sat |-> monthTotal.sat,
                              secs |-> monthTotal.secs + (IF inM THEN secs ELSE 0)]
            /\ workDaysInWeek' - workDaysInWeek \in (IF inW THEN {0, 1} ELSE {0})
            /\ workDaysInMonth' - workDaysInMonth \in (IF inM THEN {0, 1} ELSE {0})

\* C6: a matching event counts for a window exactly when it starts after the
\* window's first second and ends before its last: then its whole duration
\* is added to that window's total, otherwise nothing is added and the
\* window's day count stays.
C6_StrictWindows == [][C6_Step]_vars

C6_Witness ==
    /\ pc = "done"
    /\ \E i, j, k \in 1..Len(Stream) :
        /\ Stream[i] = WeekBeginStart
        /\ Stream[j] = OverWeekEnd
        /\ Stream[k] = WeekEndEnd
    /\ weekTotal = [sat |-> 0, secs |-> 0]
    /\ workDaysInWeek = 0
    /\ monthTotal.secs > 0

RECURSIVE SecondsInside(_, _, _, _)
SecondsInside(seq, i, begin, end) ==
    IF i > Len(seq) THEN 0
    ELSE (IF StartsWithPrefix(seq[i]) /\ StrictlyInside(seq[i], begin, end)
          THEN UnixSeconds(EndOf(seq[i])) - UnixSeconds(StartOf(seq[i])) ELSE 0)
         + SecondsInside(seq, i + 1, begin, end)

\* C7: when the events come in ascending start order and two matching events
\* of one calendar day lie inside the week, workDaysInWeek is incremented
\* exactly once by the events of that day, and the week total holds the
\* durations of all matching events inside the week.
C7_OneIncrementPerDay ==
    (pc = "done" /\ AllParse(Stream) /\ Ascending(Stream)) =>
        \A i, j \in 1..Len(Stream) :
            (/\ i < j
             /\ StartsWithPrefix(Stream[i]) /\ StartsWithPrefix(Stream[j])
             /\ StrictlyInside(Stream[i], weekBegin, weekEnd)
             /\ StrictlyInside(Stream[j], weekBegin, weekEnd)
             /\ StartOf(Stream[i]).day = StartOf(Stream[j]).day) =>
                /\ Cardinality({p \in weekIncAt :
                                  StartOf(EventAt(p)).day = StartOf(Stream[i]).day}) = 1
                /\ weekTotal = [sat |-> 0,
                                secs |-> SecondsInside(Stream, 1, weekBegin, weekEnd)]

NoEvents ==
    /\ pc = "done"
    /\ \A k \in 1..Len(provider.cals) : provider.cals[k].items = <<>>

ZeroWeekLine ==
    [kind |-> "week total", total |-> [sat |-> 0, secs |-> 0], target |-> 0,
     diff |-> [sat |-> 0, secs |-> 0]]

ZeroMonthLine ==
    [kind |-> "month total", total |-> [sat |-> 0, secs |-> 0], target |-> 0,
     diff |-> [sat |-> 0, secs |-> 0]]

CallFailed(k) ==
    IF calls[k].op = "CalendarList.List" THEN provider.list # "ok"
    ELSE provider.cals[calls[k].cal].err

\* C9: once the calendar-list request or an event request has failed the
\* process has ended: no step follows, no summary line is ever written, and
\* the failed request is the last one sent; requests are never repeated: the
\* list is asked for once, then each calendar once, in order.
C9_FailureIsFatal ==
    /\ \A k \in 1..Len(calls) :
        /\ calls[k].op = (IF k = 1 THEN "CalendarList.List" ELSE "Events.List")
        /\ k > 1 => calls[k].cal = k - 1
        /\ CallFailed(k) =>
            /\ k = Len(calls)
            /\ pc = "fatal"
            /\ ~ENABLED Next
            /\ \A n \in 1..Len(out) : ~IsSummaryLine(out[n])
    /\ pc = "fatal" => (calls # <<>> /\ CallFailed(Len(calls)))

C9_Witness ==
    /\ pc = "fatal"
    /\ \E n \in 1..Len(out) : IsEventLine(out[n])
    /\ Len(calls) = 3

\* C10: the week window runs from a Monday 00:00:00 to the Sunday six days
\* later 23:59:59 and holds now; the month window runs from the first day of
\* now's month 00:00:00 to the last day of that month 23:59:59.
C10_Windows ==
    (pc \notin {"list", "fatal"} \/ (pc = "fatal" /\ Len(calls) > 1)) =>
        /\ (weekBegin.day + 3) % 7 = 0
        /\ weekBegin.sec = 0
        /\ weekEnd.day = weekBegin.day + 6
        /\ weekEnd.sec = 86399
        /\ UnixSeconds(weekBegin) <= UnixSeconds(now)
        /\ UnixSeconds(now) <= UnixSeconds(weekEnd)
        /\ CivilFromDays(monthBegin.day) = [y |-> Year(now), m |-> Month(now), d |-> 1]
        /\ monthBegin.sec = 0
        /\ CivilFromDays(monthEnd.day) =
               [y |-> Year(now), m |-> Month(now), d |-> DaysIn(Month(now), Year(now))]
        /\ CivilFromDays(monthEnd.day + 1).d = 1
        /\ monthEnd.sec = 86399

\* now is Sunday 2025-01-05: the week began on Monday 2024-12-30.
C10_Witness ==
    /\ pc = "done"
    /\ now = LastSecond(2025, 1, 5)
    /\ (now.day + 4) % 7 = 0
    /\ weekBegin = Midnight(2024, 12, 30)
    /\ monthEnd = LastSecond(2025, 1, 31)

====
